---------------------------- MODULE Spec2Model ----------------------------
(***************************************************************************)
(* RIMM, ROMM and ERIMM transfer functions of                              *)
(* colour/models/rgb/transfer_functions/rimm_romm_rgb.py and the DSLR      *)
(* camera spectral sensitivities store.                                    *)
(*                                                                         *)
(* The code computes in IEEE doubles through numpy.  The model computes in *)
(* decimal fixed point with P limbs of four digits after the point         *)
(* (resolution 1e-12), every operation rounded to the nearest              *)
(* representable value, and carries numpy's three non-finite values (NaN,  *)
(* +Inf, -Inf) through every operation with numpy's rules.                 *)
(***************************************************************************)
EXTENDS Integers, Sequences, FiniteSets, TLC

(***************************************************************************)
(* Natural numbers of any size: little-endian sequences of limbs below     *)
(* BASE, without leading zero limbs; zero is the empty sequence.           *)
(***************************************************************************)
BASE == 10000

P == 3

Max2(a, b) == IF a >= b THEN a ELSE b

Limb(a, i) == IF i >= 1 /\ i <= Len(a) THEN a[i] ELSE 0

RECURSIVE NormLen(_, _)
NormLen(a, n) == IF n = 0 THEN 0 ELSE IF a[n] # 0 THEN n ELSE NormLen(a, n - 1)

Norm(a) == SubSeq(a, 1, NormLen(a, Len(a)))

RECURSIVE CarryFrom(_, _, _)
CarryFrom(raw, i, c) ==
    IF i > Len(raw)
    THEN IF c = 0 THEN << >> ELSE << c % BASE >> \o CarryFrom(raw, i, c \div BASE)
    ELSE LET t == raw[i] + c
         IN  << t % BASE >> \o CarryFrom(raw, i + 1, t \div BASE)

NAdd(a, b) ==
    Norm(CarryFrom([i \in 1..Max2(Len(a), Len(b)) |-> Limb(a, i) + Limb(b, i)], 1, 0))

\* a - b for a >= b
NSub(a, b) ==
    Norm(CarryFrom([i \in 1..Len(a) |-> a[i] - Limb(b, i)], 1, 0))

RECURSIVE NCmpFrom(_, _, _)
NCmpFrom(a, b, i) ==
    IF i = 0 THEN 0
    ELSE IF a[i] < b[i] THEN -1
    ELSE IF a[i] > b[i] THEN 1
    ELSE NCmpFrom(a, b, i - 1)

\* -1, 0, 1 as a < b, a = b, a > b
NCmp(a, b) ==
    IF Len(a) < Len(b) THEN -1
    ELSE IF Len(a) > Len(b) THEN 1
    ELSE NCmpFrom(a, b, Len(a))

RECURSIVE ColSum(_, _, _, _)
ColSum(a, b, k, i) ==
    IF i > Len(a) \/ i > k THEN 0
    ELSE (IF k + 1 - i <= Len(b) THEN a[i] * b[k + 1 - i] ELSE 0) + ColSum(a, b, k, i + 1)

RECURSIVE MulCarry(_, _, _, _)
MulCarry(a, b, k, c) ==
    IF k > Len(a) + Len(b) - 1
    THEN IF c = 0 THEN << >> ELSE << c % BASE >> \o MulCarry(a, b, k, c \div BASE)
    ELSE LET lo == ColSum(a, b, k, Max2(1, k + 1 - Len(b)))
             t  == (lo % BASE) + (c % BASE)
         IN  << t % BASE >> \o
             MulCarry(a, b, k + 1, (lo \div BASE) + (c \div BASE) + (t \div BASE))

NMul(a, b) ==
    IF Len(a) = 0 \/ Len(b) = 0 THEN << >> ELSE Norm(MulCarry(a, b, 1, 0))

\* a * k for a machine integer 0 <= k < BASE
NMulSmall(a, k) == IF k = 0 THEN << >> ELSE Norm(CarryFrom([i \in 1..Len(a) |-> a[i] * k], 1, 0))

\* a * BASE^n
NShl(a, n) == IF Len(a) = 0 THEN << >> ELSE [i \in 1..n |-> 0] \o a

\* a \div BASE^n
NShr(a, n) == IF Len(a) <= n THEN << >> ELSE SubSeq(a, n + 1, Len(a))

\* the machine integer a natural below 2^31 stands for
RECURSIVE NToIntFrom(_, _)
NToIntFrom(a, i) == IF i > Len(a) THEN 0 ELSE a[i] + BASE * NToIntFrom(a, i + 1)

NToInt(a) == NToIntFrom(a, 1)

RECURSIVE NFromInt(_)
NFromInt(n) == IF n = 0 THEN << >> ELSE << n % BASE >> \o NFromInt(n \div BASE)

\* long division by a machine integer 0 < n <= 200000, from limb i downwards
RECURSIVE DivSmallFrom(_, _, _, _)
DivSmallFrom(a, n, i, r) ==
    IF i = 0 THEN [q |-> << >>, r |-> r]
    ELSE LET cur  == r * BASE + a[i]
             rest == DivSmallFrom(a, n, i - 1, cur % n)
         IN  [q |-> rest.q \o << cur \div n >>, r |-> rest.r]

\* floor(a / n) and a mod n for a machine integer 0 < n <= 200000
NDivSmall(a, n) == LET x == DivSmallFrom(a, n, Len(a), 0) IN [q |-> Norm(x.q), r |-> x.r]

\* the largest d in lo..hi with d * b <= r (long division's digit)
RECURSIVE DigitSearch(_, _, _, _)
DigitSearch(r, b, lo, hi) ==
    IF lo >= hi THEN lo
    ELSE LET mid == (lo + hi + 1) \div 2
         IN  IF NCmp(NMulSmall(b, mid), r) <= 0
             THEN DigitSearch(r, b, mid, hi)
             ELSE DigitSearch(r, b, lo, mid - 1)

\* long division from limb i downwards, for a divisor b whose top limb is
\* at least BASE / 2: the top limbs bracket each digit
RECURSIVE DivFrom(_, _, _, _)
DivFrom(a, b, i, r) ==
    IF i = 0 THEN [q |-> << >>, r |-> r]
    ELSE LET cur  == Norm(<< a[i] >> \o r)
             ch   == NToInt(NShr(cur, Len(b) - 1))
             hi   == ch \div b[Len(b)]
             d    == IF NCmp(cur, b) < 0 THEN 0
                     ELSE DigitSearch(cur, b, ch \div (b[Len(b)] + 1),
                                      IF hi > BASE - 1 THEN BASE - 1 ELSE hi)
             rest == DivFrom(a, b, i - 1, IF d = 0 THEN cur ELSE NSub(cur, NMulSmall(b, d)))
         IN  [q |-> rest.q \o << d >>, r |-> rest.r]

\* the number of zero limbs at the low end of b # 0
RECURSIVE LowZeros(_, _)
LowZeros(b, i) == IF b[i] # 0 THEN i - 1 ELSE LowZeros(b, i + 1)

\* floor(a / b) for b # 0
NDiv(a, b) ==
    LET z  == LowZeros(b, 1)
        bs == NShr(b, z)
        f  == BASE \div (b[Len(b)] + 1)
    IN  IF Len(bs) = 1 \/ (Len(bs) = 2 /\ bs[2] < 20)
        THEN NDivSmall(NShr(a, z), NToInt(bs)).q
        ELSE Norm(DivFrom(NMulSmall(a, f), NMulSmall(b, f), Len(NMulSmall(a, f)), << >>).q)

\* floor(a / b) and a mod b, b # 0
NDivMod(a, b) == LET q == NDiv(a, b) IN [q |-> q, r |-> NSub(a, NMul(q, b))]

\* a / b rounded to the nearest natural, halves upwards
NDivRound(a, b) ==
    LET x == NDivMod(a, b)
    IN  IF NCmp(NAdd(x.r, x.r), b) >= 0 THEN NAdd(x.q, << 1 >>) ELSE x.q


(***************************************************************************)
(* Numbers as numpy holds them: NaN, +Inf, -Inf, or a finite value of      *)
(* sign s and magnitude m / BASE^P.  Zero has sign 1.                      *)
(***************************************************************************)
NaN == [k |-> "nan", s |-> 1, m |-> << >>]

Inf(s) == [k |-> "inf", s |-> s, m |-> << >>]

Fin(s, m) == [k |-> "fin", s |-> IF Len(m) = 0 THEN 1 ELSE s, m |-> m]

IsNaN(a) == a.k = "nan"

IsFinite(a) == a.k = "fin"

IsZero(a) == a.k = "fin" /\ Len(a.m) = 0

\* a numpy array: its shape and its elements in row-major order
Array(shape, flat) == [k |-> "arr", shape |-> shape, flat |-> flat]

IsArray(a) == a.k = "arr"

\* element i of a, a scalar standing for each of its elements (broadcasting)
Item(a, i) == IF IsArray(a) THEN a.flat[i] ELSE a

\* the decimal literal i.f1f2f3, each f a group of four digits
Lit(i, f1, f2, f3) == Fin(1, Norm(<< f3, f2, f1 >> \o NFromInt(i)))

FromInt(n) == IF n >= 0 THEN Fin(1, NShl(NFromInt(n), P)) ELSE Fin(-1, NShl(NFromInt(-n), P))

ZERO == Fin(1, << >>)

ONE == FromInt(1)

ULP == Fin(1, << 1 >>)

\* -1, 0, 1 for two values that are not NaN
Cmp(a, b) ==
    IF a.k = "inf" \/ b.k = "inf"
    THEN LET va == IF a.k = "inf" THEN 2 * a.s ELSE 0
             vb == IF b.k = "inf" THEN 2 * b.s ELSE 0
         IN  IF va < vb THEN -1 ELSE IF va > vb THEN 1 ELSE 0
    ELSE IF a.s # b.s THEN (IF a.s < b.s THEN -1 ELSE 1)
    ELSE a.s * NCmp(a.m, b.m)

\* m / BASE^P rounded to the nearest natural
RoundShr(m) ==
    IF Limb(m, P) * 2 >= BASE THEN NAdd(NShr(m, P), << 1 >>) ELSE NShr(m, P)

(***************************************************************************)
(* The operations below call one another without end: a power is an        *)
(* exponential of a logarithm, each of them a series of products and       *)
(* quotients, an operation on an array is the operation on each of its     *)
(* elements, and a decoder calls its encoder.  They are evaluated by one   *)
(* recursive operator, Eval, defined after the transfer functions; the     *)
(* names here apply it.                                                    *)
(***************************************************************************)
RECURSIVE Eval(_, _)

XNeg(a) == Eval("XNeg", << a >>)

\* numpy's comparisons: every comparison with NaN is False
XLt(a, b) == Eval("XLt", << a, b >>)

XLe(a, b) == Eval("XLe", << a, b >>)

XGt(a, b) == Eval("XGt", << a, b >>)

XGe(a, b) == Eval("XGe", << a, b >>)

XAdd(a, b) == Eval("XAdd", << a, b >>)

XSub(a, b) == XAdd(a, XNeg(b))

\* numpy.round: to the nearest integer, halves to the even one
XRound(a) == Eval("XRound", << a >>)

XMul(a, b) == Eval("XMul", << a, b >>)

XDiv(a, b) == Eval("XDiv", << a, b >>)

\* numpy.log
XLog(a) == Eval("XLog", << a >>)

\* numpy.exp
XExp(a) == Eval("XExp", << a >>)

\* a ** e (C pow) for a finite exponent e that is not an integer; a
\* non-finite or zero base only ever meets a positive exponent in the code
XPow(a, e) == Eval("XPow", << a, e >>)

\* the function f applied to its arguments
Apply(f, x, bd, fl, emin, eclip) == Eval(f, << x, bd, fl, emin, eclip >>)

\* the machine integer an integral finite value stands for
ToInt(a) == a.s * NToInt(NShr(a.m, P))

(***************************************************************************)
(* The elementary functions numpy takes from the C library: natural        *)
(* logarithm, exponential and power, on finite arguments first.            *)
(***************************************************************************)
TWO == FromInt(2)

LN2 == Lit(0, 6931, 4718, 560)

EXP_OVERFLOW == Lit(709, 7827, 1289, 3384)

RECURSIVE Pow2(_)
Pow2(n) == IF n = 0 THEN 1 ELSE 2 * Pow2(n - 1)

\* x = m * 2^k with 0.75 <= m < 1.5, for x > 0
RECURSIVE LnReduce(_, _)
LnReduce(m, k) ==
    IF XGe(m, Lit(1, 5000, 0, 0)) THEN LnReduce(XDiv(m, TWO), k + 1)
    ELSE IF XLt(m, Lit(0, 7500, 0, 0)) THEN LnReduce(XMul(m, TWO), k - 1)
    ELSE [m |-> m, k |-> k]

\* t/n + t*z2/(n+2) + ... until the terms vanish
RECURSIVE AtanhSum(_, _, _)
AtanhSum(t, z2, n) ==
    IF IsZero(t) THEN ZERO
    ELSE XAdd(XDiv(t, FromInt(n)), AtanhSum(XMul(t, z2), z2, n + 2))

\* ln(x) for finite x > 0: k*ln(2) + 2*atanh((m - 1)/(m + 1))
FLn(x) ==
    LET r == LnReduce(x, 0)
        z == XDiv(XSub(r.m, ONE), XAdd(r.m, ONE))
    IN  XAdd(XMul(FromInt(r.k), LN2), XMul(TWO, AtanhSum(z, XMul(z, z), 1)))

\* t + t*r/n + t*r^2/(n*(n+1)) + ... until the terms vanish
RECURSIVE ExpSum(_, _, _)
ExpSum(t, r, n) ==
    IF IsZero(t) THEN ZERO
    ELSE XAdd(t, ExpSum(XDiv(XMul(t, r), FromInt(n)), r, n + 1))

\* v * 2^k
RECURSIVE Scale2(_, _)
Scale2(v, k) ==
    IF k > 30 THEN Scale2(XMul(v, FromInt(Pow2(30))), k - 30)
    ELSE IF k < -30 THEN Scale2(XDiv(v, FromInt(Pow2(30))), k + 30)
    ELSE IF k >= 0 THEN XMul(v, FromInt(Pow2(k)))
    ELSE XDiv(v, FromInt(Pow2(-k)))

\* exp(x) for finite x: 2^k * exp(x - k*ln(2))
\* a float64 holds nothing above exp(709.78...): the result is +Inf there
FExp(x) ==
    IF XGt(x, EXP_OVERFLOW) THEN Inf(1)
    ELSE LET k == ToInt(XRound(XDiv(x, LN2)))
             r == XSub(x, XMul(FromInt(k), LN2))
         IN  Scale2(ExpSum(ONE, r, 1), k)

(***************************************************************************)
(* numpy's branch selection.  Both return the value together with the      *)
(* index of the branch taken (0: numpy.select's default).                  *)
(***************************************************************************)
\* numpy.where deciding every element of an array by the condition of the
\* first
np_where_first(cond, x, y) ==
    IF IsArray(x) \/ IsArray(y)
    THEN LET A == IF IsArray(x) THEN x ELSE y
         IN  [v |-> Array(A.shape, [i \in 1..Len(A.flat) |->
                                       IF cond.flat[1] THEN Item(x, i) ELSE Item(y, i)]),
              b |-> Array(A.shape, [i \in 1..Len(A.flat) |->
                                       IF cond.flat[1] THEN 1 ELSE 2])]
    ELSE IF cond THEN [v |-> x, b |-> 1] ELSE [v |-> y, b |-> 2]

\* numpy.where(cond, x, y); cond is an array exactly when x or y is one, as
\* in every use the module makes of it
np_where(cond, x, y) ==
    IF IsArray(x) \/ IsArray(y)
    THEN LET A == IF IsArray(x) THEN x ELSE y
         IN  [v |-> Array(A.shape, [i \in 1..Len(A.flat) |->
                                       IF cond.flat[i] THEN Item(x, i) ELSE Item(y, i)]),
              b |-> Array(A.shape, [i \in 1..Len(A.flat) |->
                                       IF cond.flat[i] THEN 1 ELSE 2])]
    ELSE IF cond THEN [v |-> x, b |-> 1] ELSE [v |-> y, b |-> 2]

RECURSIVE FirstTrue(_, _)
FirstTrue(condlist, i) ==
    IF i > Len(condlist) THEN 0
    ELSE IF condlist[i] THEN i
    ELSE FirstTrue(condlist, i + 1)

\* numpy.select(condlist, choicelist, default=0): the first condition that
\* is True decides, and the default when none is
\* the conditions are arrays exactly when a choice is one, as in every use
\* the module makes of it
np_select(condlist, choicelist) ==
    IF \E j \in 1..Len(choicelist) : IsArray(choicelist[j])
    THEN LET A    == choicelist[CHOOSE j \in 1..Len(choicelist) : IsArray(choicelist[j])]
             n(i) == FirstTrue([j \in 1..Len(condlist) |-> condlist[j].flat[i]], 1)
         IN  [v |-> Array(A.shape, [i \in 1..Len(A.flat) |->
                                       IF n(i) = 0 THEN ZERO ELSE Item(choicelist[n(i)], i)]),
              b |-> Array(A.shape, [i \in 1..Len(A.flat) |-> n(i)])]
    ELSE LET i == FirstTrue(condlist, 1)
         IN  [v |-> IF i = 0 THEN ZERO ELSE choicelist[i], b |-> i]

(***************************************************************************)
(* The transfer functions.  Each returns [v |-> the value returned,        *)
(* b |-> the branch that produced it].                                     *)
(***************************************************************************)
I_max(bit_depth) == FromInt(Pow2(bit_depth) - 1)

C_1_8 == Lit(1, 8000, 0, 0)

\* E_t = 16 ** (1.8 / (1 - 1.8))
ROMM_E_t == XPow(FromInt(16), XDiv(C_1_8, XSub(ONE, C_1_8)))

\* oetf_ROMMRGB normalising the float result by 2^bit_depth
oetf_ROMMRGB_pow2(X, bit_depth, out_int) ==
    LET I   == I_max(bit_depth)
        E_t == ROMM_E_t
        X_p == np_where(XLt(X, E_t),
                        XMul(XMul(X, FromInt(16)), I),
                        XMul(XPow(X, XDiv(ONE, C_1_8)), I))
    IN  [v |-> IF out_int THEN XRound(X_p.v) ELSE XDiv(X_p.v, FromInt(Pow2(bit_depth))),
         b |-> X_p.b]

oetf_ROMMRGB(X, bit_depth, out_int) ==
    LET I   == I_max(bit_depth)
        E_t == ROMM_E_t
        X_p == np_where(XLt(X, E_t),
                        XMul(XMul(X, FromInt(16)), I),
                        XMul(XPow(X, XDiv(ONE, C_1_8)), I))
    IN  [v |-> IF out_int THEN XRound(X_p.v) ELSE XDiv(X_p.v, I), b |-> X_p.b]

\* eotf_ROMMRGB with the knee at E_t * I_max, the factor 16 forgotten
eotf_ROMMRGB_knee(X_p_in, bit_depth, in_int) ==
    LET I   == I_max(bit_depth)
        X_p == IF ~in_int THEN XMul(X_p_in, I) ELSE X_p_in
        E_t == ROMM_E_t
    IN  np_where(XLt(X_p, XMul(E_t, I)),
                 XDiv(X_p, XMul(FromInt(16), I)),
                 XPow(XDiv(X_p, I), C_1_8))

eotf_ROMMRGB(X_p_in, bit_depth, in_int) ==
    LET I   == I_max(bit_depth)
        X_p == IF ~in_int THEN XMul(X_p_in, I) ELSE X_p_in
        E_t == ROMM_E_t
    IN  np_where(XLt(X_p, XMul(XMul(FromInt(16), E_t), I)),
                 XDiv(X_p, XMul(FromInt(16), I)),
                 XPow(XDiv(X_p, I), C_1_8))

\* oetf_ProPhotoRGB bound to the decoder
oetf_ProPhotoRGB_decoder(X, bit_depth, out_int) == eotf_ROMMRGB(X, bit_depth, out_int)

\* oetf_ProPhotoRGB = oetf_ROMMRGB
oetf_ProPhotoRGB(X, bit_depth, out_int) == oetf_ROMMRGB(X, bit_depth, out_int)

\* eotf_ProPhotoRGB = eotf_ROMMRGB
eotf_ProPhotoRGB(X_p_in, bit_depth, in_int) == eotf_ROMMRGB(X_p_in, bit_depth, in_int)

C_0_018 == Lit(0, 180, 0, 0)

C_0_45 == Lit(0, 4500, 0, 0)

C_0_099 == Lit(0, 990, 0, 0)

C_1_099 == Lit(1, 990, 0, 0)

\* a slope of the linear segment that overshoots the gamma segment at 0.018
C_4_5_steep == Lit(5, 5000, 0, 0)

C_4_5 == Lit(4, 5000, 0, 0)

\* V_clip without the offset: 1.099 * E_clip ** 0.45
V_clip_gain(E_clip) == XMul(C_1_099, XPow(E_clip, C_0_45))

\* V_clip = 1.099 * E_clip ** 0.45 - 0.099
V_clip(E_clip) == XSub(XMul(C_1_099, XPow(E_clip, C_0_45)), C_0_099)

oetf_RIMMRGB(X, bit_depth, out_int, E_clip) ==
    LET I        == I_max(bit_depth)
        q        == XDiv(I, V_clip(E_clip))
        sel      == np_select(
                        << XLt(X, ZERO), XLt(X, C_0_018), XGe(X, C_0_018), XGt(X, E_clip) >>,
                        << ZERO,
                           XMul(C_4_5, X),
                           XSub(XMul(C_1_099, XPow(X, C_0_45)), C_0_099),
                           I >>)
        X_p_RIMM == XMul(sel.v, q)
    IN  [v |-> IF out_int THEN XRound(X_p_RIMM) ELSE XDiv(X_p_RIMM, I), b |-> sel.b]

\* X_p_RIMM as np.select leaves it, before it is scaled
oetf_RIMMRGB_select(X, bit_depth, E_clip) ==
    np_select(<< XLt(X, ZERO), XLt(X, C_0_018), XGe(X, C_0_018), XGt(X, E_clip) >>,
              << ZERO,
                 XMul(C_4_5, X),
                 XSub(XMul(C_1_099, XPow(X, C_0_45)), C_0_099),
                 I_max(bit_depth) >>)

\* X *= q: the scaling applied to the array the caller passed
imul_target_X(locals) == locals.X

\* the array X_p_RIMM *= q writes into
imul_target(locals) == locals.X_p_RIMM

\* eotf_RIMMRGB with the knee of the default E_clip whatever the call's is
eotf_RIMMRGB_default_knee(X_p_in, bit_depth, in_int, E_clip) ==
    LET I   == I_max(bit_depth)
        X_p == IF ~in_int THEN XMul(X_p_in, I) ELSE X_p_in
        m   == XDiv(XMul(V_clip(E_clip), X_p), I)
    IN  np_where(XLt(XDiv(X_p, I), oetf_RIMMRGB(C_0_018, bit_depth, FALSE, FromInt(2)).v),
                 XDiv(m, C_4_5),
                 XPow(XDiv(XAdd(m, C_0_099), C_1_099), XDiv(ONE, C_0_45)))

eotf_RIMMRGB(X_p_in, bit_depth, in_int, E_clip) ==
    LET I   == I_max(bit_depth)
        X_p == IF ~in_int THEN XMul(X_p_in, I) ELSE X_p_in
        m   == XDiv(XMul(V_clip(E_clip), X_p), I)
    IN  np_where(XLt(XDiv(X_p, I), oetf_RIMMRGB(C_0_018, bit_depth, FALSE, E_clip).v),
                 XDiv(m, C_4_5),
                 XPow(XDiv(XAdd(m, C_0_099), C_1_099), XDiv(ONE, C_0_45)))

\* E_t = np.exp(1) * E_min
ERIMM_E_t(E_min) == XMul(XExp(ONE), E_min)

log_encoding_ERIMMRGB(X, bit_depth, out_int, E_min, E_clip) ==
    LET I      == I_max(bit_depth)
        E_t    == ERIMM_E_t(E_min)
        lnEmin == XLog(E_min)
        den    == XSub(XLog(E_clip), lnEmin)
        X_p    == np_select(
                      << XLt(X, ZERO), XLe(X, E_t), XGt(X, E_t), XGt(X, E_clip) >>,
                      << ZERO,
                         XMul(XMul(I, XDiv(XSub(XLog(E_t), lnEmin), den)), XDiv(X, E_t)),
                         XMul(I, XDiv(XSub(XLog(X), lnEmin), den)),
                         I >>)
    IN  [v |-> IF out_int THEN XRound(X_p.v) ELSE XDiv(X_p.v, I), b |-> X_p.b]

\* log_decoding_ERIMMRGB rounding the scaled float input to a code value
log_decoding_ERIMMRGB_rounded(X_p_in, bit_depth, in_int, E_min, E_clip) ==
    LET I      == I_max(bit_depth)
        X_p    == IF ~in_int THEN XRound(XMul(X_p_in, I)) ELSE X_p_in
        E_t    == ERIMM_E_t(E_min)
        lnEmin == XLog(E_min)
        den    == XSub(XLog(E_clip), lnEmin)
        ramp   == XSub(XLog(E_t), lnEmin)
    IN  np_where(XLe(X_p, XMul(I, XDiv(ramp, den))),
                 XMul(XDiv(den, ramp), XDiv(XMul(X_p, E_t), I)),
                 XExp(XAdd(XMul(XDiv(X_p, I), den), lnEmin)))

log_decoding_ERIMMRGB(X_p_in, bit_depth, in_int, E_min, E_clip) ==
    LET I      == I_max(bit_depth)
        X_p    == IF ~in_int THEN XMul(X_p_in, I) ELSE X_p_in
        E_t    == ERIMM_E_t(E_min)
        lnEmin == XLog(E_min)
        den    == XSub(XLog(E_clip), lnEmin)
        ramp   == XSub(XLog(E_t), lnEmin)
    IN  np_where(XLe(X_p, XMul(I, XDiv(ramp, den))),
                 XMul(XDiv(den, ramp), XDiv(XMul(X_p, E_t), I)),
                 XExp(XAdd(XMul(XDiv(X_p, I), den), lnEmin)))

(***************************************************************************)
(* The evaluator: op applied to the arguments args.  A numpy operation     *)
(* that meets an array works element by element, a scalar argument being   *)
(* used for every element.                                                 *)
(***************************************************************************)
\* the numpy operations that work element by element
UFuncs == {"XNeg", "XAdd", "XMul", "XDiv", "XRound", "XLog", "XExp", "XPow",
           "XLt", "XLe", "XGt", "XGe"}

Eval(op, args) ==
    LET a == args[1]
        b == args[2]
    IN  IF op \in UFuncs /\ \E j \in 1..Len(args) : IsArray(args[j])
        THEN LET A == args[CHOOSE j \in 1..Len(args) : IsArray(args[j])]
             IN  Array(A.shape,
                       [i \in 1..Len(A.flat) |->
                           Eval(op, [j \in 1..Len(args) |-> Item(args[j], i)])])
        ELSE
        CASE op = "XMul" ->
                 IF IsNaN(a) \/ IsNaN(b) THEN NaN
                 ELSE IF a.k = "inf" \/ b.k = "inf"
                      THEN (IF IsZero(a) \/ IsZero(b) THEN NaN ELSE Inf(a.s * b.s))
                 ELSE Fin(a.s * b.s, RoundShr(NMul(a.m, b.m)))
          [] op = "XDiv" ->
                 IF IsNaN(a) \/ IsNaN(b) THEN NaN
                 ELSE IF a.k = "inf" THEN (IF b.k = "inf" THEN NaN ELSE Inf(a.s * b.s))
                 ELSE IF b.k = "inf" THEN ZERO
                 ELSE IF IsZero(b) THEN (IF IsZero(a) THEN NaN ELSE Inf(a.s))
                 ELSE Fin(a.s * b.s, NDivRound(NShl(a.m, P), b.m))
          [] op = "XAdd" ->
                 IF IsNaN(a) \/ IsNaN(b) THEN NaN
                 ELSE IF a.k = "inf" THEN (IF b.k = "inf" /\ b.s # a.s THEN NaN ELSE a)
                 ELSE IF b.k = "inf" THEN b
                 ELSE IF a.s = b.s THEN Fin(a.s, NAdd(a.m, b.m))
                 ELSE IF NCmp(a.m, b.m) >= 0 THEN Fin(a.s, NSub(a.m, b.m))
                 ELSE Fin(b.s, NSub(b.m, a.m))
          [] op = "XNeg" ->
                 IF a.k = "nan" THEN NaN ELSE IF a.k = "inf" THEN Inf(-a.s) ELSE Fin(-a.s, a.m)
          [] op = "XLt" -> ~IsNaN(a) /\ ~IsNaN(b) /\ Cmp(a, b) < 0
          [] op = "XLe" -> ~IsNaN(a) /\ ~IsNaN(b) /\ Cmp(a, b) <= 0
          [] op = "XGt" -> ~IsNaN(a) /\ ~IsNaN(b) /\ Cmp(a, b) > 0
          [] op = "XGe" -> ~IsNaN(a) /\ ~IsNaN(b) /\ Cmp(a, b) >= 0
          [] op = "XRound" ->
                 IF ~IsFinite(a) THEN a
                 ELSE LET ip   == NShr(a.m, P)
                          fr   == Norm(SubSeq(a.m, 1, IF Len(a.m) < P THEN Len(a.m) ELSE P))
                          half == NCmp(NAdd(fr, fr), NShl(<< 1 >>, P))
                          up   == half > 0 \/ (half = 0 /\ Limb(ip, 1) % 2 = 1)
                      IN  Fin(a.s, NShl(IF up THEN NAdd(ip, << 1 >>) ELSE ip, P))
          [] op = "XLog" ->
                 IF IsNaN(a) THEN NaN
                 ELSE IF a.k = "inf" THEN (IF a.s = 1 THEN a ELSE NaN)
                 ELSE IF IsZero(a) THEN Inf(-1)
                 ELSE IF a.s = -1 THEN NaN
                 ELSE FLn(a)
          [] op = "XExp" ->
                 IF IsNaN(a) THEN NaN
                 ELSE IF a.k = "inf" THEN (IF a.s = 1 THEN a ELSE ZERO)
                 ELSE FExp(a)
          [] op = "XPow" ->
                 IF IsNaN(a) THEN NaN
                 ELSE IF a.k = "inf" THEN Inf(1)
                 ELSE IF IsZero(a) THEN ZERO
                 ELSE IF a.s = -1 THEN NaN
                 ELSE FExp(XMul(b, FLn(a)))
          [] op = "oetf_ROMMRGB" -> oetf_ROMMRGB(args[1], args[2], args[3])
          [] op = "eotf_ROMMRGB" -> eotf_ROMMRGB(args[1], args[2], args[3])
          [] op = "oetf_ProPhotoRGB" -> oetf_ProPhotoRGB(args[1], args[2], args[3])
          [] op = "eotf_ProPhotoRGB" -> eotf_ProPhotoRGB(args[1], args[2], args[3])
          [] op = "oetf_RIMMRGB" -> oetf_RIMMRGB(args[1], args[2], args[3], args[5])
          [] op = "eotf_RIMMRGB" -> eotf_RIMMRGB(args[1], args[2], args[3], args[5])
          [] op = "log_encoding_ERIMMRGB" ->
                 log_encoding_ERIMMRGB(args[1], args[2], args[3], args[4], args[5])
          [] op = "log_decoding_ERIMMRGB" ->
                 log_decoding_ERIMMRGB(args[1], args[2], args[3], args[4], args[5])

(***************************************************************************)
(* The DSLR camera spectral sensitivities store.  A name is a sequence of  *)
(* characters.                                                             *)
(***************************************************************************)
UPPER == << "A", "B", "C", "D", "E", "F", "G", "H", "I", "J", "K", "L", "M",
            "N", "O", "P", "Q", "R", "S", "T", "U", "V", "W", "X", "Y", "Z" >>

LOWER == << "a", "b", "c", "d", "e", "f", "g", "h", "i", "j", "k", "l", "m",
            "n", "o", "p", "q", "r", "s", "t", "u", "v", "w", "x", "y", "z" >>

\* str.lower() on one character
LowerChar(c) ==
    IF \E i \in 1..26 : UPPER[i] = c
    THEN LOWER[CHOOSE i \in 1..26 : UPPER[i] = c]
    ELSE c

\* str.lower()
LowerStr(name) == [i \in 1..Len(name) |-> LowerChar(name[i])]

NIKON_5100 ==
    << "N", "i", "k", "o", "n", " ", "5", "1", "0", "0", " ", "(", "N", "P", "L", ")" >>

SIGMA_SDMERILL ==
    << "S", "i", "g", "m", "a", " ", "S", "D", "M", "e", "r", "i", "l", "l", " ",
       "(", "N", "P", "L", ")" >>

\* the keys of DSL_CAMERAS_RGB_SPECTRAL_SENSITIVITIES_DATA
CameraNames == {NIKON_5100, SIGMA_SDMERILL}

(***************************************************************************)
(* DSL_CAMERAS_RGB_SPECTRAL_SENSITIVITIES_DATA: for each camera and each    *)
(* channel the dict from wavelength (nm; every key of the source is a      *)
(* whole number) to sensitivity, the values rounded to the model's         *)
(* resolution.                                                             *)
(***************************************************************************)
\* 'red' of 'Nikon 5100 (NPL)'
Nikon_5100_red ==
    380 :> Lit(0, 15, 6384, 2993) @@
    385 :> Lit(0, 18, 9691, 7714) @@
    390 :> Lit(0, 0, 0, 0) @@
    395 :> Lit(0, 0, 0, 0) @@
    400 :> Lit(0, 0, 0, 0) @@
    405 :> Lit(0, 7, 1776, 7033) @@
    410 :> Lit(0, 29, 2397, 4666) @@
    415 :> Lit(0, 129, 3626, 8017) @@
    420 :> Lit(0, 495, 9786, 4816) @@
    425 :> Lit(0, 760, 7250, 4360) @@
    430 :> Lit(0, 765, 8892, 7083) @@
    435 :> Lit(0, 683, 3381, 9560) @@
    440 :> Lit(0, 613, 1816, 1896) @@
    445 :> Lit(0, 547, 3314, 4578) @@
    450 :> Lit(0, 488, 6204, 7437) @@
    455 :> Lit(0, 428, 4591, 9743) @@
    460 :> Lit(0, 402, 2845, 3327) @@
    465 :> Lit(0, 434, 795, 9923) @@
    470 :> Lit(0, 476, 2021, 4312) @@
    475 :> Lit(0, 507, 7188, 4806) @@
    480 :> Lit(0, 528, 329, 5972) @@
    485 :> Lit(0, 525, 7122, 255) @@
    490 :> Lit(0, 478, 9463, 9028) @@
    495 :> Lit(0, 482, 3994, 1705) @@
    500 :> Lit(0, 502, 2924, 897) @@
    505 :> Lit(0, 550, 7649, 7350) @@
    510 :> Lit(0, 637, 211, 9012) @@
    515 :> Lit(0, 803, 8951, 3059) @@
    520 :> Lit(0, 1003, 8750, 3998) @@
    525 :> Lit(0, 1186, 1314, 9023) @@
    530 :> Lit(0, 1236, 875, 1203) @@
    535 :> Lit(0, 1030, 6249, 9328) @@
    540 :> Lit(0, 763, 4108, 3607) @@
    545 :> Lit(0, 527, 8086, 3646) @@
    550 :> Lit(0, 411, 8873, 8311) @@
    555 :> Lit(0, 390, 4385, 3519) @@
    560 :> Lit(0, 425, 4429, 4401) @@
    565 :> Lit(0, 602, 1313, 2411) @@
    570 :> Lit(0, 1117, 9621, 7051) @@
    575 :> Lit(0, 2696, 7059, 7033) @@
    580 :> Lit(0, 5645, 337, 9906) @@
    585 :> Lit(0, 8536, 126, 9473) @@
    590 :> Lit(0, 9810, 3242, 1815) @@
    595 :> Lit(1, 0, 0, 0) @@
    600 :> Lit(0, 9630, 7105, 3713) @@
    605 :> Lit(0, 9055, 2061, 8980) @@
    610 :> Lit(0, 8342, 7841, 6526) @@
    615 :> Lit(0, 7679, 8733, 7625) @@
    620 :> Lit(0, 7036, 6798, 412) @@
    625 :> Lit(0, 6391, 6484, 4761) @@
    630 :> Lit(0, 5708, 1292, 1738) @@
    635 :> Lit(0, 4958, 1796, 1932) @@
    640 :> Lit(0, 4383, 3913, 4524) @@
    645 :> Lit(0, 3889, 6992, 2604) @@
    650 :> Lit(0, 3429, 5621, 2055) @@
    655 :> Lit(0, 2927, 8541, 8363) @@
    660 :> Lit(0, 2377, 718, 731) @@
    665 :> Lit(0, 1649, 1386, 8032) @@
    670 :> Lit(0, 912, 8771, 7064) @@
    675 :> Lit(0, 420, 5615, 473) @@
    680 :> Lit(0, 205, 8267, 8777) @@
    685 :> Lit(0, 102, 8680, 5964) @@
    690 :> Lit(0, 54, 759, 8462) @@
    695 :> Lit(0, 27, 2409, 2616) @@
    700 :> Lit(0, 12, 7834, 7987) @@
    705 :> Lit(0, 7, 8123, 1184) @@
    710 :> Lit(0, 4, 7981, 4219) @@
    715 :> Lit(0, 4, 9133, 3564) @@
    720 :> Lit(0, 1, 7414, 8978) @@
    725 :> Lit(0, 1, 2017, 4626) @@
    730 :> Lit(0, 0, 0, 0) @@
    735 :> Lit(0, 0, 6120, 0) @@
    740 :> Lit(0, 0, 0, 0) @@
    745 :> Lit(0, 0, 0, 0) @@
    750 :> Lit(0, 3, 1099, 7549) @@
    755 :> Lit(0, 0, 0, 0) @@
    760 :> Lit(0, 0, 0, 0) @@
    765 :> Lit(0, 0, 0, 0) @@
    770 :> Lit(0, 0, 8560, 0) @@
    775 :> Lit(0, 1, 3831, 3729) @@
    780 :> Lit(0, 0, 3620, 0)

\* 'green' of 'Nikon 5100 (NPL)'
Nikon_5100_green ==
    380 :> Lit(0, 1, 1500, 0) @@
    385 :> Lit(0, 15, 2114, 3602) @@
    390 :> Lit(0, 5, 7430, 4992) @@
    395 :> Lit(0, 0, 0, 0) @@
    400 :> Lit(0, 0, 0, 0) @@
    405 :> Lit(0, 11, 9722, 3862) @@
    410 :> Lit(0, 13, 3571, 4984) @@
    415 :> Lit(0, 131, 9431, 6961) @@
    420 :> Lit(0, 649, 7102, 4512) @@
    425 :> Lit(0, 1151, 308, 7188) @@
    430 :> Lit(0, 1370, 6582, 5471) @@
    435 :> Lit(0, 1524, 2852, 5840) @@
    440 :> Lit(0, 1686, 4005, 4507) @@
    445 :> Lit(0, 1832, 9934, 6050) @@
    450 :> Lit(0, 1960, 3263, 4562) @@
    455 :> Lit(0, 2173, 3653, 2784) @@
    460 :> Lit(0, 2542, 4357, 3810) @@
    465 :> Lit(0, 3086, 4811, 9306) @@
    470 :> Lit(0, 3734, 6871, 1843) @@
    475 :> Lit(0, 4291, 5806, 1399) @@
    480 :> Lit(0, 4596, 5432, 4321) @@
    485 :> Lit(0, 4710, 6435, 4464) @@
    490 :> Lit(0, 4888, 5616, 4445) @@
    495 :> Lit(0, 5371, 5178, 1041) @@
    500 :> Lit(0, 6164, 9118, 6959) @@
    505 :> Lit(0, 7070, 638, 7600) @@
    510 :> Lit(0, 8009, 6424, 6014) @@
    515 :> Lit(0, 8813, 7256, 6863) @@
    520 :> Lit(0, 9388, 7792, 1198) @@
    525 :> Lit(0, 9844, 6559, 5765) @@
    530 :> Lit(1, 0, 0, 0) @@
    535 :> Lit(0, 9908, 4026, 5571) @@
    540 :> Lit(0, 9615, 4626, 4629) @@
    545 :> Lit(0, 9281, 4388, 3469) @@
    550 :> Lit(0, 8891, 231, 5921) @@
    555 :> Lit(0, 8349, 4222, 9242) @@
    560 :> Lit(0, 7763, 1807, 5002) @@
    565 :> Lit(0, 7073, 1424, 5321) @@
    570 :> Lit(0, 6357, 9620, 2492) @@
    575 :> Lit(0, 5655, 1528, 4504) @@
    580 :> Lit(0, 4927, 5517, 2535) @@
    585 :> Lit(0, 4247, 5654, 1591) @@
    590 :> Lit(0, 3517, 8931, 2261) @@
    595 :> Lit(0, 2781, 7849, 8795) @@
    600 :> Lit(0, 2116, 7353, 2500) @@
    605 :> Lit(0, 1567, 1644, 5494) @@
    610 :> Lit(0, 1180, 3962, 731) @@
    615 :> Lit(0, 888, 5249, 5342) @@
    620 :> Lit(0, 701, 184, 4049) @@
    625 :> Lit(0, 569, 899, 4709) @@
    630 :> Lit(0, 472, 9879, 1019) @@
    635 :> Lit(0, 411, 9589, 26) @@
    640 :> Lit(0, 352, 5207, 850) @@
    645 :> Lit(0, 306, 9313, 1445) @@
    650 :> Lit(0, 268, 396, 2957) @@
    655 :> Lit(0, 235, 2430, 1199) @@
    660 :> Lit(0, 203, 4633, 2525) @@
    665 :> Lit(0, 154, 5848, 3253) @@
    670 :> Lit(0, 94, 4075, 1046) @@
    675 :> Lit(0, 50, 8102, 2041) @@
    680 :> Lit(0, 29, 1019, 1669) @@
    685 :> Lit(0, 16, 2657, 5578) @@
    690 :> Lit(0, 9, 2251, 5691) @@
    695 :> Lit(0, 4, 9743, 3500) @@
    700 :> Lit(0, 4, 1215, 9403) @@
    705 :> Lit(0, 3, 1692, 6341) @@
    710 :> Lit(0, 2, 5621, 4970) @@
    715 :> Lit(0, 0, 0, 0) @@
    720 :> Lit(0, 2, 4353, 5189) @@
    725 :> Lit(0, 0, 6020, 0) @@
    730 :> Lit(0, 0, 0, 0) @@
    735 :> Lit(0, 0, 0, 0) @@
    740 :> Lit(0, 0, 0, 0) @@
    745 :> Lit(0, 0, 1710, 0) @@
    750 :> Lit(0, 0, 5210, 0) @@
    755 :> Lit(0, 0, 8850, 0) @@
    760 :> Lit(0, 0, 0, 0) @@
    765 :> Lit(0, 0, 0, 0) @@
    770 :> Lit(0, 1, 3800, 0) @@
    775 :> Lit(0, 1, 7865, 173) @@
    780 :> Lit(0, 0, 4250, 0)

\* 'blue' of 'Nikon 5100 (NPL)'
Nikon_5100_blue ==
    380 :> Lit(0, 18, 956, 394) @@
    385 :> Lit(0, 4, 8982, 8145) @@
    390 :> Lit(0, 8, 7943, 692) @@
    395 :> Lit(0, 0, 0, 0) @@
    400 :> Lit(0, 15, 3246, 688) @@
    405 :> Lit(0, 56, 9805, 6023) @@
    410 :> Lit(0, 166, 828, 7699) @@
    415 :> Lit(0, 787, 9120, 5592) @@
    420 :> Lit(0, 3617, 1350, 3650) @@
    425 :> Lit(0, 6597, 462, 1065) @@
    430 :> Lit(0, 7553, 4360, 104) @@
    435 :> Lit(0, 8104, 5312, 7074) @@
    440 :> Lit(0, 8749, 4523, 3625) @@
    445 :> Lit(0, 9267, 1273, 9912) @@
    450 :> Lit(0, 9631, 4088, 260) @@
    455 :> Lit(0, 9806, 5048, 1335) @@
    460 :> Lit(1, 0, 0, 0) @@
    465 :> Lit(0, 9964, 467, 4887) @@
    470 :> Lit(0, 9889, 6988, 6501) @@
    475 :> Lit(0, 9566, 139, 9532) @@
    480 :> Lit(0, 9049, 5886, 9870) @@
    485 :> Lit(0, 8394, 927, 7104) @@
    490 :> Lit(0, 7514, 6259, 5790) @@
    495 :> Lit(0, 6601, 202, 323) @@
    500 :> Lit(0, 5670, 6879, 1936) @@
    505 :> Lit(0, 4793, 5094, 7826) @@
    510 :> Lit(0, 3940, 6273, 8704) @@
    515 :> Lit(0, 3142, 7061, 8794) @@
    520 :> Lit(0, 2498, 1663, 4394) @@
    525 :> Lit(0, 2018, 2351, 9247) @@
    530 :> Lit(0, 1616, 3395, 852) @@
    535 :> Lit(0, 1351, 6143, 1473) @@
    540 :> Lit(0, 1099, 8875, 7160) @@
    545 :> Lit(0, 863, 9435, 4078) @@
    550 :> Lit(0, 652, 5313, 592) @@
    555 :> Lit(0, 478, 5595, 3452) @@
    560 :> Lit(0, 341, 3932, 3039) @@
    565 :> Lit(0, 240, 1990, 9769) @@
    570 :> Lit(0, 197, 6793, 5985) @@
    575 :> Lit(0, 163, 4844, 7811) @@
    580 :> Lit(0, 138, 1733, 9370) @@
    585 :> Lit(0, 119, 5294, 6480) @@
    590 :> Lit(0, 100, 909, 3958) @@
    595 :> Lit(0, 75, 8776, 3089) @@
    600 :> Lit(0, 64, 5584, 4635) @@
    605 :> Lit(0, 52, 2978, 2857) @@
    610 :> Lit(0, 36, 5998, 4595) @@
    615 :> Lit(0, 39, 5538, 5055) @@
    620 :> Lit(0, 39, 6835, 2217) @@
    625 :> Lit(0, 34, 9138, 45) @@
    630 :> Lit(0, 40, 4302, 1032) @@
    635 :> Lit(0, 41, 8929, 9853) @@
    640 :> Lit(0, 55, 4676, 8565) @@
    645 :> Lit(0, 54, 6423, 3235) @@
    650 :> Lit(0, 59, 7382, 8474) @@
    655 :> Lit(0, 63, 906, 7748) @@
    660 :> Lit(0, 61, 412, 6977) @@
    665 :> Lit(0, 48, 3655, 7924) @@
    670 :> Lit(0, 30, 2664, 7946) @@
    675 :> Lit(0, 17, 2169, 7010) @@
    680 :> Lit(0, 7, 8065, 1287) @@
    685 :> Lit(0, 5, 6963, 708) @@
    690 :> Lit(0, 2, 7523, 2961) @@
    695 :> Lit(0, 2, 9672, 1379) @@
    700 :> Lit(0, 2, 4951, 1923) @@
    705 :> Lit(0, 0, 8500, 0) @@
    710 :> Lit(0, 4, 1916, 8951) @@
    715 :> Lit(0, 1, 5331, 7434) @@
    720 :> Lit(0, 0, 1830, 0) @@
    725 :> Lit(0, 0, 0, 0) @@
    730 :> Lit(0, 3, 3869, 3819) @@
    735 :> Lit(0, 0, 0, 0) @@
    740 :> Lit(0, 0, 0, 0) @@
    745 :> Lit(0, 1, 6527, 8287) @@
    750 :> Lit(0, 1, 7755, 2622) @@
    755 :> Lit(0, 0, 0, 0) @@
    760 :> Lit(0, 0, 2430, 0) @@
    765 :> Lit(0, 0, 6180, 0) @@
    770 :> Lit(0, 2, 6260, 7032) @@
    775 :> Lit(0, 2, 8050, 5370) @@
    780 :> Lit(0, 0, 0, 0)

\* 'red' of 'Sigma SDMerill (NPL)'
Sigma_SDMerill_red ==
    400 :> Lit(0, 56, 2107, 4406) @@
    410 :> Lit(0, 65, 335, 6245) @@
    420 :> Lit(0, 740, 7911, 2891) @@
    430 :> Lit(0, 430, 2295, 9463) @@
    440 :> Lit(0, 345, 952, 5622) @@
    450 :> Lit(0, 188, 9156, 7234) @@
    460 :> Lit(0, 73, 1107, 6997) @@
    470 :> Lit(0, 454, 9915, 1231) @@
    480 :> Lit(0, 567, 6752, 9211) @@
    490 :> Lit(0, 1341, 9592, 659) @@
    500 :> Lit(0, 1647, 5268, 9978) @@
    510 :> Lit(0, 2171, 2641, 9786) @@
    520 :> Lit(0, 3064, 8343, 8358) @@
    530 :> Lit(0, 3498, 4579, 6149) @@
    540 :> Lit(0, 4437, 4258, 1333) @@
    550 :> Lit(0, 4448, 8860, 5281) @@
    560 :> Lit(0, 4789, 7575, 6747) @@
    570 :> Lit(0, 5095, 291, 4811) @@
    580 :> Lit(0, 5926, 2909, 3785) @@
    590 :> Lit(0, 6738, 3327, 5607) @@
    600 :> Lit(0, 7140, 3771, 4881) @@
    610 :> Lit(0, 8600, 761, 3115) @@
    620 :> Lit(0, 8981, 302, 8496) @@
    630 :> Lit(1, 0, 0, 0) @@
    640 :> Lit(0, 9949, 4213, 3112) @@
    650 :> Lit(0, 9208, 5127, 7361) @@
    660 :> Lit(0, 1814, 3311, 6314) @@
    670 :> Lit(0, 63, 978, 7954) @@
    680 :> Lit(0, 52, 8874, 3832)

\* 'green' of 'Sigma SDMerill (NPL)'
Sigma_SDMerill_green ==
    400 :> Lit(0, 63, 2809, 7513) @@
    410 :> Lit(0, 97, 6180, 4596) @@
    420 :> Lit(0, 252, 7177, 83) @@
    430 :> Lit(0, 837, 5118, 5853) @@
    440 :> Lit(0, 1437, 381, 9744) @@
    450 :> Lit(0, 1836, 1168, 9309) @@
    460 :> Lit(0, 4090, 9478, 100) @@
    470 :> Lit(0, 5159, 5564, 862) @@
    480 :> Lit(0, 6012, 664, 6627) @@
    490 :> Lit(0, 6703, 1679, 9801) @@
    500 :> Lit(0, 7525, 8747, 1535) @@
    510 :> Lit(0, 8438, 1384, 3689) @@
    520 :> Lit(0, 9015, 1724, 5588) @@
    530 :> Lit(0, 9197, 5030, 6688) @@
    540 :> Lit(0, 9679, 9429, 522) @@
    550 :> Lit(0, 9572, 5231, 640) @@
    560 :> Lit(0, 9520, 4791, 8600) @@
    570 :> Lit(0, 9762, 8014, 4584) @@
    580 :> Lit(0, 9725, 8624, 3890) @@
    590 :> Lit(1, 0, 0, 0) @@
    600 :> Lit(0, 9694, 8452, 7578) @@
    610 :> Lit(0, 9544, 1319, 1249) @@
    620 :> Lit(0, 9333, 5435, 8909) @@
    630 :> Lit(0, 9257, 1406, 8336) @@
    640 :> Lit(0, 8848, 6439, 5415) @@
    650 :> Lit(0, 7616, 5184, 7416) @@
    660 :> Lit(0, 1405, 2437, 572) @@
    670 :> Lit(0, 41, 4367, 2158) @@
    680 :> Lit(0, 18, 3198, 9582)

\* 'blue' of 'Sigma SDMerill (NPL)'
Sigma_SDMerill_blue ==
    400 :> Lit(0, 1621, 5942, 4133) @@
    410 :> Lit(0, 2854, 9837, 8046) @@
    420 :> Lit(0, 3969, 431, 609) @@
    430 :> Lit(0, 5083, 1024, 3172) @@
    440 :> Lit(0, 6221, 1847, 2469) @@
    450 :> Lit(0, 7374, 2136, 2458) @@
    460 :> Lit(0, 9453, 8036, 6701) @@
    470 :> Lit(0, 9644, 1494, 7703) @@
    480 :> Lit(1, 0, 0, 0) @@
    490 :> Lit(0, 9859, 8021, 1885) @@
    500 :> Lit(0, 9834, 266, 3575) @@
    510 :> Lit(0, 9696, 9219, 5671) @@
    520 :> Lit(0, 9428, 817, 4021) @@
    530 :> Lit(0, 8966, 4279, 9181) @@
    540 :> Lit(0, 8844, 4590, 2200) @@
    550 :> Lit(0, 8679, 1899, 716) @@
    560 :> Lit(0, 8337, 5679, 5849) @@
    570 :> Lit(0, 8320, 4140, 2406) @@
    580 :> Lit(0, 8005, 4956, 3848) @@
    590 :> Lit(0, 7828, 9512, 4746) @@
    600 :> Lit(0, 7394, 6953, 72) @@
    610 :> Lit(0, 6671, 8640, 1750) @@
    620 :> Lit(0, 6204, 3627, 8068) @@
    630 :> Lit(0, 6111, 6087, 8770) @@
    640 :> Lit(0, 5517, 3556, 1957) @@
    650 :> Lit(0, 4653, 8831, 7445) @@
    660 :> Lit(0, 796, 1907, 8367) @@
    670 :> Lit(0, 5, 9244, 4461) @@
    680 :> Lit(0, 46, 8563, 6805)

\* DSL_CAMERAS_RGB_SPECTRAL_SENSITIVITIES_DATA with the Sigma's blue channel
\* taken from the Nikon's table
DSL_CAMERAS_RGB_SPECTRAL_SENSITIVITIES_DATA_mixed ==
    NIKON_5100 :> [red |-> Nikon_5100_red, green |-> Nikon_5100_green,
                   blue |-> Nikon_5100_blue] @@
    SIGMA_SDMERILL :> [red |-> Sigma_SDMerill_red, green |-> Sigma_SDMerill_green,
                       blue |-> Nikon_5100_blue]

DSL_CAMERAS_RGB_SPECTRAL_SENSITIVITIES_DATA ==
    NIKON_5100 :> [red |-> Nikon_5100_red, green |-> Nikon_5100_green,
                   blue |-> Nikon_5100_blue] @@
    SIGMA_SDMERILL :> [red |-> Sigma_SDMerill_red, green |-> Sigma_SDMerill_green,
                       blue |-> Sigma_SDMerill_blue]

\* the dict handed to CaseInsensitiveMapping with only the Nikon entry
DSL_CAMERAS_DICT_one ==
    [n \in {NIKON_5100} |-> [name |-> n, data |-> n]]

\* the dict handed to CaseInsensitiveMapping: each camera's name bound to
\* RGB_SpectralSensitivities(name, DATA[name]), the data named by its key
DSL_CAMERAS_DICT ==
    [n \in CameraNames |-> [name |-> n, data |-> n]]

\* CaseInsensitiveMapping(d): the values of d under their lower-cased keys
CaseInsensitiveMapping(d) ==
    [k \in {LowerStr(n) : n \in DOMAIN d} |-> d[CHOOSE n \in DOMAIN d : LowerStr(n) = k]]

DSL_CAMERAS_RGB_SPECTRAL_SENSITIVITIES == CaseInsensitiveMapping(DSL_CAMERAS_DICT)

(***************************************************************************)
(* The callers.  One call at a time: a caller picks a function and its     *)
(* arguments, the function returns, and the caller may hand an encoder's   *)
(* result to the matching decoder with the same parameters.                *)
(***************************************************************************)
VARIABLES
    pc,         \* "idle" or "done"
    fn,         \* the function called last
    X,          \* its first argument
    bit_depth,
    flag,       \* out_int of an encoder, in_int of a decoder
    E_min,
    E_clip,
    result,     \* the value returned
    branch,     \* the branch that produced it
    raised,     \* the exception raised, "none" when the call returned
    chained,    \* TRUE when X is the result of the matching encoder
    X0,         \* the encoder's argument, when chained
    branch0,    \* the encoder's branch, when chained
    store,      \* DSL_CAMERAS_RGB_SPECTRAL_SENSITIVITIES
    key,        \* the name looked up last
    record,     \* the record the lookup returned
    heap,       \* the arrays concurrent callers hold, by reference
    th          \* each concurrent caller's position and local names

vars == << pc, fn, X, bit_depth, flag, E_min, E_clip, result, branch, raised,
           chained, X0, branch0, store, key, record, heap, th >>

\* the variables of the callers that call one at a time
seq_vars == << pc, fn, X, bit_depth, flag, E_min, E_clip, result, branch, raised,
               chained, X0, branch0, key, record >>

MaxBitDepth == 16

GridN == 4

BitDepths == {0, 8, MaxBitDepth}

DEFAULT_E_clip_RIMM == FromInt(2)

DEFAULT_E_min == Lit(0, 10, 0, 0)

DEFAULT_E_clip_ERIMM == Lit(316, 2000, 0, 0)

RIMM_E_clips == {DEFAULT_E_clip_RIMM, Lit(0, 5000, 0, 0), C_0_018}

ERIMM_E_clips == {DEFAULT_E_clip_ERIMM}

Around(x) == {XSub(x, ULP), x, XAdd(x, ULP)}

\* the first arguments the callers pass
XIn ==
    {NaN, Inf(1), Inf(-1)}
    \cup {FromInt(-1), XNeg(ULP)}
    \cup {XDiv(FromInt(k), FromInt(GridN)) : k \in 0..GridN}
    \cup Around(ROMM_E_t) \cup Around(C_0_018) \cup Around(ERIMM_E_t(DEFAULT_E_min))
    \cup {Lit(0, 10, 0, 0), Lit(0, 1800, 0, 0), Lit(1, 5000, 0, 0), FromInt(3), FromInt(400)}
    \cup {DEFAULT_E_clip_RIMM, XAdd(DEFAULT_E_clip_RIMM, ULP)}
    \cup {DEFAULT_E_clip_ERIMM, XAdd(DEFAULT_E_clip_ERIMM, ULP)}

\* the first arguments the callers pass to a decoder
X_pIn == {x \in XIn : IsFinite(x) => XLe(x, FromInt(3))}

\* the shapes of the arrays the callers pass
Shapes == {<< 6 >>, << 2, 3 >>, << 2, 3, 1 >>}

\* the elements of the arrays the callers pass
FlatsIn ==
    {<< ZERO, Lit(0, 10, 0, 0), C_0_018, Lit(0, 1800, 0, 0), ONE, Lit(1, 5000, 0, 0) >>,
     << NaN, FromInt(-1), ROMM_E_t, Lit(0, 2500, 0, 0), XAdd(DEFAULT_E_clip_RIMM, ULP),
        FromInt(3) >>}

ArraysIn == {Array(shape, flat) : shape \in Shapes, flat \in FlatsIn}

\* every element of x is finite
AllFinite(x) == \A i \in 1..(IF IsArray(x) THEN Len(x.flat) ELSE 1) : IsFinite(Item(x, i))

Encoders == {"oetf_ROMMRGB", "oetf_RIMMRGB", "log_encoding_ERIMMRGB"}

Decoders == {"eotf_ROMMRGB", "eotf_RIMMRGB", "log_decoding_ERIMMRGB"}

\* the code value the RIMM encoder's segment that ends at 0.018 - the linear
\* one when linear, the gamma one otherwise - gives for 0.018, not rounded
RIMMKneeCode(bd, linear) ==
    XMul(IF linear THEN XMul(C_4_5, C_0_018)
         ELSE XSub(XMul(C_1_099, XPow(C_0_018, C_0_45)), C_0_099),
         XDiv(I_max(bd), V_clip(DEFAULT_E_clip_RIMM)))

\* the code values the callers decode: the lowest, the highest, the
\* documented ones, and those from the end of the RIMM encoder's linear
\* segment to the decoder's knee
CodeValuesIn(bd) ==
    {c \in (0..16) \cup {74, 98, 105, Pow2(bd) - 2, Pow2(bd) - 1}
            \cup ((ToInt(XRound(RIMMKneeCode(bd, TRUE))) - 1)
                    ..(ToInt(XRound(RIMMKneeCode(bd, FALSE))) + 1)) :
        c >= 0 /\ c <= Pow2(bd) - 1}

\* x is a code value of bit depth bd
IsCodeValue(x, bd) ==
    IsFinite(x) /\ XRound(x) = x /\ XGe(x, ZERO) /\ XLe(x, I_max(bd))

Forward(f) ==
    IF f = "eotf_ROMMRGB" THEN "oetf_ROMMRGB"
    ELSE IF f = "eotf_RIMMRGB" THEN "oetf_RIMMRGB"
    ELSE "log_encoding_ERIMMRGB"

Inverse(f) ==
    IF f = "oetf_ROMMRGB" THEN "eotf_ROMMRGB"
    ELSE IF f = "oetf_RIMMRGB" THEN "eotf_RIMMRGB"
    ELSE "log_decoding_ERIMMRGB"

NONE == ZERO

NO_RECORD == [name |-> << >>, data |-> << >>]

\* str.swapcase() on one character
SwapChar(c) ==
    IF \E i \in 1..26 : UPPER[i] = c THEN LOWER[CHOOSE i \in 1..26 : UPPER[i] = c]
    ELSE IF \E i \in 1..26 : LOWER[i] = c THEN UPPER[CHOOSE i \in 1..26 : LOWER[i] = c]
    ELSE c

UpperStr(name) ==
    [i \in 1..Len(name) |-> IF LowerChar(name[i]) = name[i] THEN SwapChar(name[i]) ELSE name[i]]

\* name with the case of its characters at the positions ps swapped
SwapAt(name, ps) == [i \in 1..Len(name) |-> IF i \in ps THEN SwapChar(name[i]) ELSE name[i]]

CANON_5D == << "C", "a", "n", "o", "n", " ", "5", "D" >>

\* the names the callers look up: the two cameras in every spelling that
\* swaps the case of at most two characters, all lower, all upper, and
\* names that are not in the store
KeysIn ==
    UNION {{SwapAt(n, {i, j}) : i, j \in 1..Len(n)} \cup {LowerStr(n), UpperStr(n)} :
           n \in CameraNames}
    \cup {CANON_5D, LowerStr(CANON_5D), << >>,
          SubSeq(NIKON_5100, 1, 10), NIKON_5100 \o << " " >>,
          SubSeq(NIKON_5100, 1, 9) \o << "1" >> \o SubSeq(NIKON_5100, 11, 16)}

\* the concurrent callers
Threads == {1, 2}

\* the reference of the array the concurrent callers share
INPUT == 0

SharedArray == Array(<< 2 >>, << Lit(0, 10, 0, 0), Lit(0, 1800, 0, 0) >>)

\* the reference of the n-th array caller t creates
Ref(t, n) == 10 * t + n

NO_REF == -1

IdleThread ==
    [pc |-> "idle", fn |-> "none", flag |-> FALSE, X |-> NO_REF, X_p_RIMM |-> NO_REF,
     res |-> NO_REF, key |-> << >>, record |-> NO_RECORD, raised |-> "none"]

\* the thresholds a concurrent caller leaves at their defaults
Default_E_min(f) ==
    IF f \in {"log_encoding_ERIMMRGB", "log_decoding_ERIMMRGB"} THEN DEFAULT_E_min ELSE NONE

Default_E_clip(f) ==
    IF f \in {"oetf_RIMMRGB", "eotf_RIMMRGB"} THEN DEFAULT_E_clip_RIMM
    ELSE IF f \in {"log_encoding_ERIMMRGB", "log_decoding_ERIMMRGB"} THEN DEFAULT_E_clip_ERIMM
    ELSE NONE

Init ==
    /\ pc = "idle"
    /\ fn = "none"
    /\ X = NONE
    /\ bit_depth = 8
    /\ flag = FALSE
    /\ E_min = NONE
    /\ E_clip = NONE
    /\ result = NONE
    /\ branch = 0
    /\ raised = "none"
    /\ chained = FALSE
    /\ X0 = NONE
    /\ branch0 = 0
    /\ store = DSL_CAMERAS_RGB_SPECTRAL_SENSITIVITIES
    /\ key = << >>
    /\ record = NO_RECORD
    /\ heap = (INPUT :> SharedArray)
    /\ th = [t \in Threads |-> IdleThread]

\* a call of f that returns; no function of the module raises
Call(f, x, bd, fl, emin, eclip) ==
    /\ pc = "idle"
    \* the cast of a non-finite value to np.int_ is undefined
    /\ fl => AllFinite(x)
    /\ LET r == Apply(f, x, bd, fl, emin, eclip)
       IN  /\ result' = r.v
           /\ branch' = r.b
    /\ pc' = "done"
    /\ fn' = f
    /\ X' = x
    /\ bit_depth' = bd
    /\ flag' = fl
    /\ E_min' = emin
    /\ E_clip' = eclip
    /\ raised' = "none"
    /\ UNCHANGED << chained, X0, branch0, store, key, record, heap, th >>

Call_oetf_ROMMRGB ==
    \E x \in XIn, bd \in BitDepths, fl \in BOOLEAN :
        Call("oetf_ROMMRGB", x, bd, fl, NONE, NONE)

Call_eotf_ROMMRGB ==
    \E x \in X_pIn, bd \in BitDepths, fl \in BOOLEAN :
        Call("eotf_ROMMRGB", x, bd, fl, NONE, NONE)

Call_oetf_ProPhotoRGB ==
    \E x \in XIn, bd \in BitDepths, fl \in BOOLEAN :
        Call("oetf_ProPhotoRGB", x, bd, fl, NONE, NONE)

Call_eotf_ProPhotoRGB ==
    \E x \in X_pIn, bd \in BitDepths, fl \in BOOLEAN :
        Call("eotf_ProPhotoRGB", x, bd, fl, NONE, NONE)

Call_oetf_RIMMRGB ==
    \E x \in XIn, bd \in BitDepths, fl \in BOOLEAN, eclip \in RIMM_E_clips :
        Call("oetf_RIMMRGB", x, bd, fl, NONE, eclip)

Call_eotf_RIMMRGB ==
    \E x \in X_pIn, bd \in BitDepths, fl \in BOOLEAN, eclip \in RIMM_E_clips :
        Call("eotf_RIMMRGB", x, bd, fl, NONE, eclip)

Call_log_encoding_ERIMMRGB ==
    \E x \in XIn, bd \in BitDepths, fl \in BOOLEAN, eclip \in ERIMM_E_clips :
        Call("log_encoding_ERIMMRGB", x, bd, fl, DEFAULT_E_min, eclip)

Call_log_decoding_ERIMMRGB ==
    \E x \in X_pIn, bd \in BitDepths, fl \in BOOLEAN, eclip \in ERIMM_E_clips :
        Call("log_decoding_ERIMMRGB", x, bd, fl, DEFAULT_E_min, eclip)

\* a decoder called on a code value, the thresholds at their defaults
Call_decoder_on_code ==
    \E f \in Decoders, bd \in BitDepths \ {0} :
        \E c \in CodeValuesIn(bd) :
            Call(f, FromInt(c), bd, TRUE, Default_E_min(f), Default_E_clip(f))

\* a call with an array for first argument, the other parameters at their
\* defaults
Call_array ==
    \E f \in Encoders \cup Decoders, x \in ArraysIn, fl \in BOOLEAN :
        IF f \in {"oetf_RIMMRGB", "eotf_RIMMRGB"}
        THEN Call(f, x, 8, fl, NONE, DEFAULT_E_clip_RIMM)
        ELSE IF f \in {"log_encoding_ERIMMRGB", "log_decoding_ERIMMRGB"}
        THEN Call(f, x, 8, fl, DEFAULT_E_min, DEFAULT_E_clip_ERIMM)
        ELSE Call(f, x, 8, fl, NONE, NONE)

\* the caller decodes the scalar the encoder returned, with the same
\* parameters
Feed ==
    /\ pc = "done"
    /\ fn \in Encoders
    /\ ~chained
    /\ ~IsArray(result)
    /\ flag => IsFinite(result)
    /\ LET r == Apply(Inverse(fn), result, bit_depth, flag, E_min, E_clip)
       IN  /\ result' = r.v
           /\ branch' = r.b
    /\ fn' = Inverse(fn)
    /\ X' = result
    /\ X0' = X
    /\ branch0' = branch
    /\ chained' = TRUE
    /\ UNCHANGED << pc, bit_depth, flag, E_min, E_clip, raised, store, key, record,
                    heap, th >>

\* the caller encodes to a code value what the decoder returned for a code
\* value, with the same parameters
Encode_back ==
    /\ pc = "done"
    /\ fn \in Decoders
    /\ ~chained
    /\ flag
    /\ IsCodeValue(X, bit_depth)
    /\ IsFinite(result)
    /\ LET r == Apply(Forward(fn), result, bit_depth, TRUE, E_min, E_clip)
       IN  /\ result' = r.v
           /\ branch' = r.b
    /\ fn' = Forward(fn)
    /\ X' = result
    /\ X0' = X
    /\ branch0' = branch
    /\ chained' = TRUE
    /\ UNCHANGED << pc, bit_depth, flag, E_min, E_clip, raised, store, key, record,
                    heap, th >>

Return ==
    /\ pc = "done"
    /\ pc' = "idle"
    /\ fn' = "none"
    /\ X' = NONE
    /\ bit_depth' = 8
    /\ flag' = FALSE
    /\ E_min' = NONE
    /\ E_clip' = NONE
    /\ result' = NONE
    /\ branch' = 0
    /\ raised' = "none"
    /\ chained' = FALSE
    /\ X0' = NONE
    /\ branch0' = 0
    /\ key' = << >>
    /\ record' = NO_RECORD
    /\ UNCHANGED << store, heap, th >>

\* DSL_CAMERAS_RGB_SPECTRAL_SENSITIVITIES[k]: the record under the
\* lower-cased key, or a not-found error
Lookup ==
    /\ pc = "idle"
    /\ \E k \in KeysIn :
           /\ key' = k
           /\ IF LowerStr(k) \in DOMAIN store
              THEN record' = store[LowerStr(k)] /\ raised' = "none"
              ELSE record' = NO_RECORD /\ raised' = "NotFoundError"
    /\ pc' = "done"
    /\ fn' = "lookup"
    /\ UNCHANGED << X, bit_depth, flag, E_min, E_clip, result, branch, chained, X0,
                    branch0, store, heap, th >>

(***************************************************************************)
(* Concurrent callers.  Each calls a transfer function on the shared array *)
(* with bit_depth 8, or looks a camera up, one statement at a time.  An    *)
(* array lives in the heap; a name holds a reference to it.                *)
(***************************************************************************)
\* a caller enters a transfer function with the shared array
Thread_call ==
    \E t \in Threads, f \in Encoders \cup Decoders, fl \in BOOLEAN :
        /\ th[t].pc = "idle"
        /\ th' = [th EXCEPT ![t] = [@ EXCEPT !.pc = "asarray", !.fn = f, !.flag = fl]]
        /\ UNCHANGED << seq_vars, store, heap >>

\* np.asarray(X): an array is returned as it is, not copied
Thread_asarray ==
    \E t \in Threads :
        /\ th[t].pc = "asarray"
        /\ th' = [th EXCEPT ![t] =
                     [@ EXCEPT !.X = INPUT,
                               !.pc = IF th[t].fn \in Decoders /\ ~th[t].flag THEN "scale"
                                      ELSE IF th[t].fn = "oetf_RIMMRGB" THEN "select"
                                      ELSE "body"]]
        /\ UNCHANGED << seq_vars, store, heap >>

\* X_p = X_p * I_max: the product is a new array
Thread_scale ==
    \E t \in Threads :
        /\ th[t].pc = "scale"
        /\ heap' = (Ref(t, 1) :> XMul(heap[th[t].X], I_max(8))) @@ heap
        /\ th' = [th EXCEPT ![t] = [@ EXCEPT !.X = Ref(t, 1), !.pc = "body"]]
        /\ UNCHANGED << seq_vars, store >>

\* the rest of a function that builds its result out of new arrays only;
\* a decoder's argument is in code values by now
Thread_body ==
    \E t \in Threads :
        /\ th[t].pc = "body"
        /\ heap' = (Ref(t, 3) :>
                       Apply(th[t].fn, heap[th[t].X], 8,
                             IF th[t].fn \in Decoders THEN TRUE ELSE th[t].flag,
                             Default_E_min(th[t].fn), Default_E_clip(th[t].fn)).v) @@ heap
        /\ th' = [th EXCEPT ![t] = [@ EXCEPT !.res = Ref(t, 3), !.pc = "done"]]
        /\ UNCHANGED << seq_vars, store >>

\* oetf_RIMMRGB: X_p_RIMM = np.select(...), a new array
Thread_select ==
    \E t \in Threads :
        /\ th[t].pc = "select"
        /\ heap' = (Ref(t, 2) :> oetf_RIMMRGB_select(heap[th[t].X], 8, DEFAULT_E_clip_RIMM).v)
                    @@ heap
        /\ th' = [th EXCEPT ![t] = [@ EXCEPT !.X_p_RIMM = Ref(t, 2), !.pc = "imul"]]
        /\ UNCHANGED << seq_vars, store >>

\* oetf_RIMMRGB: X_p_RIMM *= q, in place
Thread_imul ==
    \E t \in Threads :
        /\ th[t].pc = "imul"
        /\ heap' = [heap EXCEPT ![imul_target(th[t])] =
                        XMul(@, XDiv(I_max(8), V_clip(DEFAULT_E_clip_RIMM)))]
        /\ th' = [th EXCEPT ![t] = [@ EXCEPT !.pc = "return"]]
        /\ UNCHANGED << seq_vars, store >>

\* oetf_RIMMRGB: the rounded or the normalised array is returned
Thread_return ==
    \E t \in Threads :
        /\ th[t].pc = "return"
        /\ heap' = (Ref(t, 3) :>
                       IF th[t].flag THEN XRound(heap[th[t].X_p_RIMM])
                       ELSE XDiv(heap[th[t].X_p_RIMM], I_max(8))) @@ heap
        /\ th' = [th EXCEPT ![t] = [@ EXCEPT !.res = Ref(t, 3), !.pc = "done"]]
        /\ UNCHANGED << seq_vars, store >>

\* a caller looks a camera up
Thread_lookup ==
    \E t \in Threads, k \in {NIKON_5100, LowerStr(SIGMA_SDMERILL), CANON_5D} :
        /\ th[t].pc = "idle"
        /\ th' = [th EXCEPT ![t] =
                     [@ EXCEPT !.pc = "done", !.fn = "lookup", !.key = k,
                               !.record = IF LowerStr(k) \in DOMAIN store
                                          THEN store[LowerStr(k)] ELSE NO_RECORD,
                               !.raised = IF LowerStr(k) \in DOMAIN store
                                          THEN "none" ELSE "NotFoundError"]]
        /\ UNCHANGED << seq_vars, store, heap >>

ConcurrentNext ==
    \/ Thread_call
    \/ Thread_asarray
    \/ Thread_scale
    \/ Thread_body
    \/ Thread_select
    \/ Thread_imul
    \/ Thread_return
    \/ Thread_lookup

ConcurrentSpec == Init /\ [][ConcurrentNext]_vars

Next ==
    \/ Call_oetf_ROMMRGB
    \/ Call_eotf_ROMMRGB
    \/ Call_oetf_ProPhotoRGB
    \/ Call_eotf_ProPhotoRGB
    \/ Call_oetf_RIMMRGB
    \/ Call_eotf_RIMMRGB
    \/ Call_log_encoding_ERIMMRGB
    \/ Call_log_decoding_ERIMMRGB
    \/ Call_array
    \/ Call_decoder_on_code
    \/ Feed
    \/ Encode_back
    \/ Return
    \/ Lookup

Spec == Init /\ [][Next]_vars

(***************************************************************************)
(* Properties                                                              *)
(***************************************************************************)
\* a call of a function of F on a scalar has returned
Called(F) == pc = "done" /\ ~chained /\ fn \in F /\ ~IsArray(X)

RoundTripped(F) == pc = "done" /\ chained /\ fn \in F

DefaultThresholds ==
    /\ fn \in {"oetf_RIMMRGB", "eotf_RIMMRGB"} => E_clip = DEFAULT_E_clip_RIMM
    /\ fn \in {"log_encoding_ERIMMRGB", "log_decoding_ERIMMRGB"} =>
           E_min = DEFAULT_E_min /\ E_clip = DEFAULT_E_clip_ERIMM

\* 1e-7
TOLERANCE == Fin(1, << 0, 10 >>)

Within(a, b, tol) == IsFinite(a) /\ IsFinite(b) /\ XLe(XSub(a, b), tol) /\ XLe(XSub(b, a), tol)

\* C1: decoding with in_int=False what the matching encoder returned with
\* out_int=False, same bit_depth and default thresholds, gives back every X
\* of [0, 1] within 1e-7, the knees and their neighbours included.
C1_RoundTrip ==
    (/\ RoundTripped(Decoders)
     /\ ~flag
     /\ bit_depth >= 1
     /\ DefaultThresholds
     /\ XGe(X0, ZERO) /\ XLe(X0, ONE))
    => Within(result, X0, TOLERANCE)

C1_Witness ==
    /\ RoundTripped({"eotf_RIMMRGB"})
    /\ ~flag
    /\ bit_depth = 8
    /\ DefaultThresholds
    /\ X0 = C_0_018
    /\ branch = 2
    /\ Within(result, X0, TOLERANCE)

\* C2: oetf_RIMMRGB takes the clip branch for every X > E_clip, so the
\* result above E_clip is one value that does not grow with X.
C2_ClipBranch ==
    (Called({"oetf_RIMMRGB"}) /\ bit_depth >= 1 /\ XGt(X, E_clip))
    => /\ branch = 4
       /\ result = Apply("oetf_RIMMRGB", FromInt(400), bit_depth, flag, E_min, E_clip).v

\* C3: log_encoding_ERIMMRGB clips every X > E_clip to I_max (1.0 as a
\* float).
C3_ClipToMax ==
    (Called({"log_encoding_ERIMMRGB"}) /\ bit_depth >= 1 /\ XGt(X, E_clip))
    => result = (IF flag THEN I_max(bit_depth) ELSE ONE)

\* C4: each of the six functions, with float input and output, returns NaN
\* for NaN and does not raise.
C4_NaNPropagates ==
    (Called(Encoders \cup Decoders) /\ bit_depth >= 1 /\ ~flag /\ IsNaN(X))
    => IsNaN(result) /\ raised = "none"

\* C5: each encoder returns a finite value for every element of
\* [-1, 0, 1, -Inf, Inf] without raising, the maximum for +Inf and 0 for
\* -Inf.
C5_InfHandled ==
    (/\ Called(Encoders) /\ bit_depth >= 1 /\ ~flag
     /\ X \in {FromInt(-1), ZERO, ONE, Inf(-1), Inf(1)})
    => /\ raised = "none"
       /\ IsFinite(result)
       /\ X = Inf(1) => result = ONE
       /\ X = Inf(-1) => result = ZERO

\* C6: each encoder returns exactly 0 for every finite X < 0.
C6_NegativeToZero ==
    (Called(Encoders) /\ bit_depth >= 1 /\ IsFinite(X) /\ XLt(X, ZERO))
    => raised = "none" /\ IsZero(result)

\* C7: a call with bit_depth <= 0 raises InvalidArgument instead of
\* returning.
C7_BitDepthValidated ==
    (pc = "done" /\ bit_depth <= 0) => raised = "InvalidArgument"

C9_CodeValueInRange ==
    (Called(Encoders) /\ bit_depth >= 1 /\ flag /\ IsFinite(X))
    => XGe(result, ZERO) /\ XLe(result, I_max(bit_depth))

\* key is name up to the case of its letters
CaseVariant(k, name) ==
    /\ Len(k) = Len(name)
    /\ \A i \in 1..Len(name) : k[i] = name[i] \/ k[i] = SwapChar(name[i])

\* C10: lookup is case-insensitive and total on exactly the two camera
\* names: every case variant of a camera's name returns that camera's
\* record, every other key fails with a not-found error, and no lookup
\* changes the store.
C10_LookupCaseInsensitive ==
    /\ DOMAIN store = {LowerStr(NIKON_5100), LowerStr(SIGMA_SDMERILL)}
    /\ \A k \in DOMAIN store : LowerStr(store[k].name) = k /\ store[k].data = store[k].name
    /\ (pc = "done" /\ fn = "lookup") =>
           /\ \A n \in {NIKON_5100, SIGMA_SDMERILL} :
                  CaseVariant(key, n) => raised = "none" /\ record = [name |-> n, data |-> n]
           /\ (\A n \in {NIKON_5100, SIGMA_SDMERILL} : ~CaseVariant(key, n)) =>
                  raised = "NotFoundError"

C10_Witness ==
    /\ pc = "done"
    /\ fn = "lookup"
    /\ key = LowerStr(SIGMA_SDMERILL)
    /\ key # SIGMA_SDMERILL
    /\ raised = "none"
    /\ record.name = SIGMA_SDMERILL

Channels == {"red", "green", "blue"}

\* the wavelengths of channel run from first to last in steps of step
Sampled(channel, first, last, step) ==
    DOMAIN channel = {first + step * i : i \in 0..((last - first) \div step)}

\* every value of channel lies in [0, 1] and its largest value is 1.0
PeakNormalised(channel) ==
    /\ \A w \in DOMAIN channel : XGe(channel[w], ZERO) /\ XLe(channel[w], ONE)
    /\ \E w \in DOMAIN channel : channel[w] = ONE

\* C11: every channel of every camera of the data the store's records name
\* is sampled at a constant step (5 nm from 380 to 780 for the Nikon, 10 nm
\* from 400 to 680 for the Sigma), holds values in [0, 1] only, and has the
\* maximum exactly 1.0.
C11_DatasetInvariants ==
    \A k \in DOMAIN store :
        LET n == store[k].data
            d == DSL_CAMERAS_RGB_SPECTRAL_SENSITIVITIES_DATA[n]
        IN  /\ n \in {NIKON_5100, SIGMA_SDMERILL}
            /\ DOMAIN d = Channels
            /\ \A c \in Channels :
                   /\ n = NIKON_5100 => Sampled(d[c], 380, 780, 5)
                   /\ n = SIGMA_SDMERILL => Sampled(d[c], 400, 680, 10)
                   /\ PeakNormalised(d[c])

C11_Witness ==
    /\ pc = "done"
    /\ fn = "lookup"
    /\ raised = "none"
    /\ record.name = SIGMA_SDMERILL
    /\ DSL_CAMERAS_RGB_SPECTRAL_SENSITIVITIES_DATA[record.data]["blue"][480] = ONE
    /\ DSL_CAMERAS_RGB_SPECTRAL_SENSITIVITIES_DATA[record.data]["blue"][490] # ONE

\* C12: called on an array, each of the six functions returns an array of
\* the same shape whose element i is what the function returns when it is
\* called on element i alone as a scalar, with the same parameters.
C12_Elementwise ==
    (pc = "done" /\ fn \in Encoders \cup Decoders /\ IsArray(X))
    => /\ IsArray(result)
       /\ result.shape = X.shape
       /\ Len(result.flat) = Len(X.flat)
       /\ \A i \in 1..Len(X.flat) :
              result.flat[i] = Apply(fn, X.flat[i], bit_depth, flag, E_min, E_clip).v

C12_Witness ==
    /\ pc = "done"
    /\ fn = "oetf_RIMMRGB"
    /\ IsArray(X)
    /\ X.shape = << 2, 3, 1 >>
    /\ flag
    /\ X.flat[4] = Lit(0, 1800, 0, 0)
    /\ result.shape = << 2, 3, 1 >>
    /\ result.flat[4] = FromInt(74)
    /\ branch.flat = << 2, 2, 3, 3, 3, 3 >>

\* C13: oetf_ProPhotoRGB and eotf_ProPhotoRGB return, for every input,
\* bit_depth and flag, what oetf_ROMMRGB and eotf_ROMMRGB return.
C13_ProPhotoAliases ==
    /\ (pc = "done" /\ fn = "oetf_ProPhotoRGB") =>
           /\ result = Apply("oetf_ROMMRGB", X, bit_depth, flag, E_min, E_clip).v
           /\ branch = Apply("oetf_ROMMRGB", X, bit_depth, flag, E_min, E_clip).b
    /\ (pc = "done" /\ fn = "eotf_ProPhotoRGB") =>
           /\ result = Apply("eotf_ROMMRGB", X, bit_depth, flag, E_min, E_clip).v
           /\ branch = Apply("eotf_ROMMRGB", X, bit_depth, flag, E_min, E_clip).b

C13_Witness ==
    /\ pc = "done"
    /\ fn = "oetf_ProPhotoRGB"
    /\ bit_depth = 8
    /\ flag
    /\ X = Lit(0, 1800, 0, 0)
    /\ result = FromInt(98)

\* C14: with bit_depth=8, the default thresholds and out_int=True, 0.18
\* encodes to 98 under oetf_ROMMRGB, 74 under oetf_RIMMRGB and 105 under
\* log_encoding_ERIMMRGB.
C14_MidGreyCodes ==
    (/\ Called(Encoders) /\ bit_depth = 8 /\ flag /\ DefaultThresholds
     /\ X = Lit(0, 1800, 0, 0))
    => result = FromInt(IF fn = "oetf_ROMMRGB" THEN 98
                        ELSE IF fn = "oetf_RIMMRGB" THEN 74
                        ELSE 105)

C14_Witness ==
    /\ Called({"log_encoding_ERIMMRGB"})
    /\ bit_depth = 8
    /\ flag
    /\ DefaultThresholds
    /\ X = Lit(0, 1800, 0, 0)
    /\ branch = 3
    /\ result = FromInt(105)

\* what a call of f on the shared array returns when it runs alone
Alone(f, fl) == Apply(f, SharedArray, 8, fl, Default_E_min(f), Default_E_clip(f)).v

\* C15: however the statements of concurrent calls on one shared array and
\* of lookups interleave, the shared array and the store stay as they were
\* and every call returns what it returns when it runs alone.
C15_ConcurrentCallsIndependent ==
    /\ heap[INPUT] = SharedArray
    /\ store = DSL_CAMERAS_RGB_SPECTRAL_SENSITIVITIES
    /\ \A t \in Threads :
           th[t].pc = "done" =>
               IF th[t].fn = "lookup"
               THEN th[t].record = (IF LowerStr(th[t].key) \in DOMAIN store
                                    THEN store[LowerStr(th[t].key)] ELSE NO_RECORD)
               ELSE heap[th[t].res] = Alone(th[t].fn, th[t].flag)

C15_Witness ==
    /\ th[1].pc = "done" /\ th[1].fn = "oetf_RIMMRGB" /\ th[1].flag
    /\ th[2].pc = "body" /\ th[2].fn = "eotf_ROMMRGB" /\ ~th[2].flag
    /\ heap[th[1].res].flat = << FromInt(1), FromInt(74) >>
    /\ heap[th[1].X_p_RIMM] # heap[INPUT]
    /\ th[1].X = INPUT

\* eotf_RIMMRGB took the linear inverse exactly when X_p / I_max is below
\* oetf_RIMMRGB(0.018) for the call's own bit_depth and E_clip, as a float
RIMMKneeCoupled ==
    (pc = "done" /\ fn = "eotf_RIMMRGB" /\ ~IsArray(X) /\ bit_depth >= 1 /\ ~IsNaN(X))
    => (branch = 1 <=>
           XLt(XDiv(IF flag THEN X ELSE XMul(X, I_max(bit_depth)), I_max(bit_depth)),
               Apply("oetf_RIMMRGB", C_0_018, bit_depth, FALSE, E_min, E_clip).v))

\* the decoder inverted the segment the encoder used
RIMMSameSegment ==
    (/\ RoundTripped({"eotf_RIMMRGB"}) /\ bit_depth >= 1 /\ XGe(E_clip, C_0_018)
     /\ ~IsNaN(X0) /\ XLe(X0, E_clip))
    => (branch = 1 <=> XLt(X0, C_0_018))

\* C16: eotf_RIMMRGB takes the linear inverse exactly when X_p / I_max is
\* strictly below oetf_RIMMRGB(0.018) of its own bit_depth and E_clip, and
\* with float coding (out_int=False, in_int=False) it decodes by the linear
\* inverse what the encoder produced from X < 0.018 and by the gamma inverse
\* what it produced from 0.018 <= X <= E_clip, for every E_clip >= 0.018.
C16_KneeCoupling == RIMMKneeCoupled /\ (~flag => RIMMSameSegment)

\* C16 as stated: the same with integer code values included.
C16_KneeCoupling_AnyCoding == RIMMKneeCoupled /\ RIMMSameSegment

C16_Witness ==
    /\ RoundTripped({"eotf_RIMMRGB"})
    /\ ~flag
    /\ bit_depth = MaxBitDepth
    /\ E_clip = Lit(0, 5000, 0, 0)
    /\ X0 = XSub(C_0_018, ULP)
    /\ branch0 = 2
    /\ branch = 1

\* C17: for bit_depth >= 1 a decoder returns for v with in_int=False what
\* it returns for v * I_max with in_int=True, and takes the same branch.
C17_InIntOnlyScales ==
    (Called(Decoders) /\ bit_depth >= 1 /\ ~flag)
    => /\ result = Apply(fn, XMul(X, I_max(bit_depth)), bit_depth, TRUE, E_min, E_clip).v
       /\ branch = Apply(fn, XMul(X, I_max(bit_depth)), bit_depth, TRUE, E_min, E_clip).b

C17_Witness ==
    /\ Called({"log_decoding_ERIMMRGB"})
    /\ bit_depth = 8
    /\ ~flag
    /\ X = Lit(0, 2500, 0, 0)
    /\ branch = 2
    /\ IsFinite(result)
    /\ XGt(result, Lit(0, 230, 0, 0))
    /\ XLt(result, Lit(0, 240, 0, 0))

\* the argument of a decoder in code values
CodeValue == IF flag THEN X ELSE XMul(X, I_max(bit_depth))

\* the decoders compare with 16 * E_t * I_max, strictly, and with
\* I_max * (ln(E_t) - ln(E_min)) / (ln(E_clip) - ln(E_min)), inclusively
DecoderThresholds ==
    /\ (pc = "done" /\ fn = "eotf_ROMMRGB" /\ ~IsArray(X) /\ bit_depth >= 1 /\ ~IsNaN(X))
       => (branch = 1 <=>
              XLt(CodeValue, XMul(XMul(FromInt(16), ROMM_E_t), I_max(bit_depth))))
    /\ (pc = "done" /\ fn = "log_decoding_ERIMMRGB" /\ ~IsArray(X) /\ bit_depth >= 1
        /\ ~IsNaN(X))
       => (branch = 1 <=>
              XLe(CodeValue,
                  XMul(I_max(bit_depth),
                       XDiv(XSub(XLog(ERIMM_E_t(E_min)), XLog(E_min)),
                            XSub(XLog(E_clip), XLog(E_min))))))

\* at the knee the two segments of the ROMM encoder give the same value
ROMMKneeContinuous ==
    (Called({"oetf_ROMMRGB"}) /\ bit_depth >= 1 /\ ~flag /\ X = ROMM_E_t)
    => result = XMul(FromInt(16), ROMM_E_t)

\* the decoder inverted the segment the encoder used for an in-range X
SameSegment ==
    /\ (RoundTripped({"eotf_ROMMRGB"}) /\ bit_depth >= 1 /\ XGe(X0, ZERO) /\ XLe(X0, ONE))
       => (branch = 1 <=> XLt(X0, ROMM_E_t))
    /\ (/\ RoundTripped({"log_decoding_ERIMMRGB"}) /\ bit_depth >= 1
        /\ XGe(X0, ZERO) /\ XLe(X0, E_clip))
       => (branch = 1 <=> XLe(X0, ERIMM_E_t(E_min)))

\* C18: eotf_ROMMRGB takes the linear inverse exactly below 16 * E_t * I_max
\* and log_decoding_ERIMMRGB the inverse ramp up to its threshold, the
\* encoder's segments meet at the knee, and so every in-range X is decoded
\* by the inverse of the segment that encoded it.
C18_DecoderKnees == DecoderThresholds /\ ROMMKneeContinuous /\ SameSegment

\* C19: for bit_depth >= 1 and the default thresholds, encoding with
\* out_int=True what a decoder returned for a code value c with in_int=True
\* gives c back, the code values between the end of the RIMM linear segment
\* and the decoder's knee included.
C19_CodeValuesStable ==
    (pc = "done" /\ chained /\ fn \in Encoders /\ bit_depth >= 1 /\ DefaultThresholds)
    => result = X0

\* the finite first arguments above x
Above(x) == {y \in XIn : IsFinite(y) /\ Cmp(y, x) > 0}

\* the least of them
Successor(x) == CHOOSE y \in Above(x) : \A z \in Above(x) : Cmp(y, z) <= 0

\* C20: for bit_depth >= 1 an encoder returns for a finite X no more than it
\* returns, with the same parameters, for the next larger finite input, with
\* float and with integer output: below and above zero, the knee and
\* E_clip.
C20_EncodersMonotone ==
    (Called(Encoders) /\ bit_depth >= 1 /\ IsFinite(X) /\ Above(X) # {})
    => XLe(result, Apply(fn, Successor(X), bit_depth, flag, E_min, E_clip).v)

C20_Witness ==
    /\ Called({"oetf_RIMMRGB"})
    /\ bit_depth = 8
    /\ ~flag
    /\ E_clip = DEFAULT_E_clip_RIMM
    /\ X = XSub(C_0_018, ULP)
    /\ branch = 2
    /\ Successor(X) = C_0_018
    /\ XLt(XAdd(result, Lit(0, 1, 0, 0)),
           Apply(fn, Successor(X), bit_depth, flag, E_min, E_clip).v)

=============================================================================
